---- MODULE Spec2Model ----
\* A model of src/src/blockchain.rs: the BlockDAG ledger (GHOSTDAG ordering of
\* blocks, account-based transaction execution and reversal), and of
\* src/src/lib.rs: the Dag helper (cycle-free edges, topological sort).
EXTENDS Integers, Sequences, FiniteSets, TLC

VARIABLES
    k,                 \* BlockDAG.k
    overflow_checks,   \* build profile: TRUE = arithmetic overflow panics, FALSE = it wraps
    blocks,            \* BlockDAG.blocks: hash -> Block
    children_mapping,  \* BlockDAG.children_mapping: hash -> set of hashes
    accounts,          \* BlockDAG.accounts: address -> Account
    last,              \* history: the last call and what it returned
    trace,             \* history: the steps of the last execute_blue_chain / revert_block
    inserted,          \* history: number of add_block calls that returned Ok
    panicked,          \* TRUE once a call has panicked (the ledger is then gone)
    nodes,             \* Dag.nodes: id -> Node
    edges,             \* Dag.edges: id -> set of child ids
    dag_last,          \* history: the last call on the Dag and what it returned
    refunded           \* history: <<hash, index>> of the stored transactions whose
                       \* sender a revert has credited since they were last executed

vars == <<k, overflow_checks, blocks, children_mapping, accounts, last, trace,
          inserted, panicked, nodes, edges, dag_last, refunded>>

----------------------------------------------------------------------------
\* Bounds of the model.

MaxK == 1            \* k ranges over 0..MaxK
MaxDagAdds == 3      \* accepted add_block calls in SpecDag
U64_MAX == 3         \* the largest u64, scaled down
USIZE_MAX == 7       \* the largest usize, scaled down

\* Hashes in the order of Rust's String comparison
\* ("b1" < "b2" < "b3" < "b4" < "genesis"); Hashes are those of SpecDag.
HashOrder == <<"b1", "b2", "b3", "b4", "genesis">>
Hashes == {"b1", "b2", "b3", "genesis"}
HashRank(h) == CHOOSE i \in 1..Len(HashOrder) : HashOrder[i] = h
Timestamps == {100, 200}

----------------------------------------------------------------------------
\* Helpers on sequences and sets.

Range(s) == {s[i] : i \in 1..Len(s)}

RECURSIVE SetToSeq(_)
SetToSeq(S) == IF S = {} THEN << >>
               ELSE LET x == CHOOSE y \in S : TRUE IN <<x>> \o SetToSeq(S \ {x})

RemoveAt(s, i) == SubSeq(s, 1, i - 1) \o SubSeq(s, i + 1, Len(s))

----------------------------------------------------------------------------
\* Types.

Pending == [kind |-> "Pending", reason |-> << >>]
Executed == [kind |-> "Executed", reason |-> << >>]
Reverted == [kind |-> "Reverted", reason |-> << >>]
Failed(reason) == [kind |-> "Failed", reason |-> reason]

Transaction_new(id, from, to, amount, nonce) ==
    [id |-> id, from |-> from, to |-> to, amount |-> amount, nonce |-> nonce,
     status |-> Pending]

Block_new(hash, parent_hashes, transactions, timestamp) ==
    [hash |-> hash, parent_hashes |-> parent_hashes, transactions |-> transactions,
     timestamp |-> timestamp, height |-> 0, color |-> "Blue", weight |-> 0]

Block_genesis ==
    [hash |-> "genesis", parent_hashes |-> << >>, transactions |-> << >>,
     timestamp |-> 0, height |-> 0, color |-> "Blue", weight |-> 1]

Account_new(address, balance) == [address |-> address, balance |-> balance, nonce |-> 0]

\* BlockDAG::new: the ledger as a record self.
BlockDAG_new(kk) ==
    [blocks |-> [h \in {"genesis"} |-> Block_genesis],
     children_mapping |-> [h \in {"genesis"} |-> {}],
     accounts |-> << >>,
     k |-> kk]

----------------------------------------------------------------------------
\* Ancestry index and anticone.

\* get_ancestors: breadth-first closure over parent_hashes. `ancestors` is the
\* visited set; the queue is kept as a set because the result does not depend on
\* the order in which queued hashes are taken.
RECURSIVE AncestorsLoop(_, _, _)
AncestorsLoop(self, queue, ancestors) ==
    IF queue = {} THEN ancestors
    ELSE LET current == CHOOSE c \in queue : TRUE
             parents == IF current \in DOMAIN self.blocks
                        THEN Range(self.blocks[current].parent_hashes) ELSE {}
             fresh == parents \ ancestors
         IN AncestorsLoop(self, (queue \ {current}) \cup fresh, ancestors \cup fresh)

get_ancestors(self, block_hash) ==
    LET first == IF block_hash \in DOMAIN self.blocks
                 THEN Range(self.blocks[block_hash].parent_hashes) ELSE {}
    IN AncestorsLoop(self, first, first)

\* get_descendants: the same closure over children_mapping.
RECURSIVE DescendantsLoop(_, _, _)
DescendantsLoop(self, queue, descendants) ==
    IF queue = {} THEN descendants
    ELSE LET current == CHOOSE c \in queue : TRUE
             children == IF current \in DOMAIN self.children_mapping
                         THEN self.children_mapping[current] ELSE {}
             fresh == children \ descendants
         IN DescendantsLoop(self, (queue \ {current}) \cup fresh, descendants \cup fresh)

get_descendants(self, block_hash) ==
    LET first == IF block_hash \in DOMAIN self.children_mapping
                 THEN self.children_mapping[block_hash] ELSE {}
    IN DescendantsLoop(self, first, first)

get_anticone(self, block_hash, reference_set) ==
    LET ancestors == get_ancestors(self, block_hash)
        descendants == get_descendants(self, block_hash)
    IN {hash \in reference_set :
            hash # block_hash /\ hash \notin ancestors /\ hash \notin descendants}

\* is_blue_candidate with `<` in place of `<=`.
is_blue_candidate_strict(self, candidate, blue_set) ==
    IF candidate \notin DOMAIN self.blocks THEN FALSE
    ELSE Cardinality(get_anticone(self, candidate, blue_set) \cap blue_set) < self.k

is_blue_candidate(self, candidate, blue_set) ==
    IF candidate \notin DOMAIN self.blocks THEN FALSE
    ELSE LET anticone == get_anticone(self, candidate, blue_set)
             blue_anticone_size == Cardinality({hash \in anticone : hash \in blue_set})
         IN blue_anticone_size <= self.k

----------------------------------------------------------------------------
\* GHOSTDAG ordering.

\* The heap holds (parent_count, Reverse(timestamp), hash); BinaryHeap::pop takes
\* the greatest: more parents, then the smaller timestamp, then the greater hash.
HeapEntry(block) ==
    [parent_count |-> Len(block.parent_hashes), timestamp |-> block.timestamp,
     hash |-> block.hash]

HeapGreater(a, b) ==
    \/ a.parent_count > b.parent_count
    \/ /\ a.parent_count = b.parent_count
       /\ \/ a.timestamp < b.timestamp
          \/ a.timestamp = b.timestamp /\ HashRank(a.hash) > HashRank(b.hash)

\* Index of an entry of the heap that no other entry is greater than.
HeapTop(heap) == CHOOSE i \in 1..Len(heap) :
                    \A j \in 1..Len(heap) : ~HeapGreater(heap[j], heap[i])

\* The while loop of ghostdag_sort. The result is the ordered blue blocks, or a
\* panic when `*degree -= 1` underflows in a build with overflow checks.
\* hist is history only: the hashes in the order heap.pop returned them, and
\* whether a decrement has gone below zero.
RECURSIVE SortLoop(_, _, _, _, _, _, _)
SortLoop(self, checks, heap, in_degree, blue_set, ordered, hist) ==
    IF heap = << >>
    THEN [panic |-> FALSE, ordered |-> ordered,
          popped |-> hist.popped, underflow |-> hist.underflow]
    ELSE LET top == HeapTop(heap)
             current_hash == heap[top].hash
             rest == RemoveAt(heap, top)
             is_blue == IF current_hash = "genesis" THEN TRUE
                        ELSE is_blue_candidate(self, current_hash, blue_set)
             blue_set2 == IF is_blue THEN blue_set \cup {current_hash} ELSE blue_set
             ordered2 == IF is_blue THEN Append(ordered, current_hash) ELSE ordered
             children == IF current_hash \in DOMAIN self.children_mapping
                         THEN self.children_mapping[current_hash] \cap DOMAIN in_degree
                         ELSE {}
             underflow == \E c \in children : in_degree[c] = 0
             in_degree2 == [h \in DOMAIN in_degree |->
                              IF h \in children
                              THEN (in_degree[h] - 1) % (USIZE_MAX + 1)
                              ELSE in_degree[h]]
             ready == {c \in children : in_degree2[c] = 0 /\ c \in DOMAIN self.blocks}
             pushed == SetToSeq({HeapEntry(self.blocks[c]) : c \in ready})
             hist2 == [popped |-> Append(hist.popped, current_hash),
                       underflow |-> hist.underflow \/ underflow]
         IN IF underflow /\ checks
            THEN [panic |-> TRUE, ordered |-> ordered2,
                  popped |-> hist2.popped, underflow |-> TRUE]
            ELSE SortLoop(self, checks, rest \o pushed, in_degree2, blue_set2,
                          ordered2, hist2)

ghostdag_sort(self, checks) ==
    LET in_degree == [h \in DOMAIN self.blocks |-> Len(self.blocks[h].parent_hashes)]
        heap == IF "genesis" \in DOMAIN self.blocks
                THEN <<HeapEntry(self.blocks["genesis"])>> ELSE << >>
    IN SortLoop(self, checks, heap, in_degree, {}, << >>,
                [popped |-> << >>, underflow |-> FALSE])

\* Position of hash in the sequence ordered, 0 when absent (the last position
\* when it occurs more than once: a later assignment overwrites an earlier one).
PositionIn(ordered, hash) ==
    IF hash \notin Range(ordered) THEN 0
    ELSE CHOOSE i \in 1..Len(ordered) :
            ordered[i] = hash /\ \A j \in (i + 1)..Len(ordered) : ordered[j] # hash

\* update_ghostdag_ordering without the reset of colors and weights.
update_ghostdag_ordering_no_reset(self, checks) ==
    LET sorted == ghostdag_sort(self, checks)
        colored == [h \in DOMAIN self.blocks |->
                      IF h \in Range(sorted.ordered)
                      THEN [self.blocks[h] EXCEPT !.color = "Blue",
                                                  !.weight = PositionIn(sorted.ordered, h)]
                      ELSE self.blocks[h]]
    IN IF sorted.panic THEN [panic |-> TRUE, self |-> self]
       ELSE [panic |-> FALSE, self |-> [self EXCEPT !.blocks = colored]]

\* update_ghostdag_ordering with the weight assigned before it is incremented.
update_ghostdag_ordering_from_zero(self, checks) ==
    LET sorted == ghostdag_sort(self, checks)
        colored == [h \in DOMAIN self.blocks |->
                      IF h \in Range(sorted.ordered)
                      THEN [self.blocks[h] EXCEPT !.color = "Blue",
                                                  !.weight = PositionIn(sorted.ordered, h) - 1]
                      ELSE [self.blocks[h] EXCEPT !.color = "Red", !.weight = 0]]
    IN IF sorted.panic THEN [panic |-> TRUE, self |-> self]
       ELSE [panic |-> FALSE, self |-> [self EXCEPT !.blocks = colored]]

\* update_ghostdag_ordering that also puts every transaction back to Pending.
update_ghostdag_ordering_resetting_statuses(self, checks) ==
    LET sorted == ghostdag_sort(self, checks)
        colored == [h \in DOMAIN self.blocks |->
                      [self.blocks[h] EXCEPT
                          !.color = IF h \in Range(sorted.ordered) THEN "Blue" ELSE "Red",
                          !.weight = IF h \in Range(sorted.ordered)
                                     THEN PositionIn(sorted.ordered, h) ELSE 0,
                          !.transactions = [i \in DOMAIN @ |->
                                               [@[i] EXCEPT !.status = Pending]]]]
    IN IF sorted.panic THEN [panic |-> TRUE, self |-> self]
       ELSE [panic |-> FALSE, self |-> [self EXCEPT !.blocks = colored]]

update_ghostdag_ordering(self, checks) ==
    LET sorted == ghostdag_sort(self, checks)
        ordered_blocks == sorted.ordered
        colored == [h \in DOMAIN self.blocks |->
                      IF h \in Range(ordered_blocks)
                      THEN [self.blocks[h] EXCEPT !.color = "Blue",
                                                  !.weight = PositionIn(ordered_blocks, h)]
                      ELSE [self.blocks[h] EXCEPT !.color = "Red", !.weight = 0]]
    IN IF sorted.panic THEN [panic |-> TRUE, self |-> self]
       ELSE [panic |-> FALSE, self |-> [self EXCEPT !.blocks = colored]]

\* f with key x set to v (HashMap::insert).
Insert(f, x, v) == [y \in DOMAIN f \cup {x} |-> IF y = x THEN v ELSE f[y]]

Ok == [tag |-> "Ok", err |-> "", arg |-> ""]
\* An error message: its text and the name it quotes ("" when it quotes none).
Err(err, arg) == [tag |-> "Err", err |-> err, arg |-> arg]
Panic(err) == [tag |-> "Panic", err |-> err, arg |-> ""]

\* add_block with the parent check and the child linking in one loop: the parents
\* before the missing one are linked before the error is returned.
add_block_linking_first(self, checks, block) ==
    LET missing == {i \in 1..Len(block.parent_hashes) :
                       block.parent_hashes[i] \notin DOMAIN self.blocks}
        first == CHOOSE i \in missing : \A j \in missing : i <= j
        hash == block.hash
        upto == IF missing = {} THEN Len(block.parent_hashes) ELSE first - 1
        linked == [p \in DOMAIN self.children_mapping |->
                     IF p \in {block.parent_hashes[i] : i \in 1..upto}
                     THEN self.children_mapping[p] \cup {hash}
                     ELSE self.children_mapping[p]]
        added == [self EXCEPT !.blocks = Insert(self.blocks, hash, block),
                              !.children_mapping = Insert(linked, hash, {})]
        updated == update_ghostdag_ordering(added, checks)
    IN IF missing # {}
       THEN [self |-> [self EXCEPT !.children_mapping = linked],
             ret |-> Err("Parent block does not exist", block.parent_hashes[first])]
       ELSE IF updated.panic
       THEN [self |-> added, ret |-> Panic("attempt to subtract with overflow")]
       ELSE [self |-> updated.self, ret |-> Ok]

\* add_block: [self |-> the ledger after the call, ret |-> what it returned].
add_block(self, checks, block) ==
    LET missing == {i \in 1..Len(block.parent_hashes) :
                       block.parent_hashes[i] \notin DOMAIN self.blocks}
        hash == block.hash
        linked == [p \in DOMAIN self.children_mapping |->
                     IF p \in Range(block.parent_hashes)
                     THEN self.children_mapping[p] \cup {hash}
                     ELSE self.children_mapping[p]]
        added == [self EXCEPT !.blocks = Insert(self.blocks, hash, block),
                              !.children_mapping = Insert(linked, hash, {})]
        updated == update_ghostdag_ordering(added, checks)
    IN IF missing # {}
       THEN [self |-> self,
             ret |-> Err("Parent block does not exist",
                         block.parent_hashes[CHOOSE i \in missing :
                                                \A j \in missing : i <= j])]
       ELSE IF updated.panic
       THEN [self |-> added, ret |-> Panic("attempt to subtract with overflow")]
       ELSE [self |-> updated.self, ret |-> Ok]

\* get_ordered_blue_blocks without the filter on the color.
get_ordered_blocks_of_any_color(self) ==
    LET all == DOMAIN self.blocks
    IN {s \in [1..Cardinality(all) -> all] :
          /\ \A i, j \in DOMAIN s : i < j => s[i] # s[j]
          /\ \A i, j \in DOMAIN s : i < j =>
                self.blocks[s[i]].weight <= self.blocks[s[j]].weight}

get_ordered_blue_blocks(self) ==
    LET blue == {h \in DOMAIN self.blocks : self.blocks[h].color = "Blue"}
    IN {s \in [1..Cardinality(blue) -> blue] :
          /\ \A i, j \in DOMAIN s : i < j => s[i] # s[j]
          /\ \A i, j \in DOMAIN s : i < j =>
                self.blocks[s[i]].weight <= self.blocks[s[j]].weight}

----------------------------------------------------------------------------
\* Ledger executor.

\* execute_transaction with the nonce incremented before the balance is verified.
execute_transaction_nonce_first(self, checks, tx) ==
    IF tx.from \notin DOMAIN self.accounts
    THEN [self |-> self, tx |-> tx, ret |-> Err("Sender account does not exist", tx.from)]
    ELSE
    LET sender == self.accounts[tx.from]
        bumped == [self.accounts EXCEPT ![tx.from].nonce = sender.nonce + 1]
        debited == [bumped EXCEPT ![tx.from].balance = sender.balance - tx.amount]
        overflow == tx.to \in DOMAIN debited /\ debited[tx.to].balance + tx.amount > U64_MAX
        credited == IF tx.to \in DOMAIN debited
                    THEN [debited EXCEPT ![tx.to].balance =
                             (debited[tx.to].balance + tx.amount) % (U64_MAX + 1)]
                    ELSE Insert(debited, tx.to, Account_new(tx.to, tx.amount))
    IN IF tx.nonce # sender.nonce
       THEN [self |-> self,
             tx |-> [tx EXCEPT !.status = Failed(<<"Invalid nonce", sender.nonce, tx.nonce>>)],
             ret |-> Err("Failed: Invalid nonce", "")]
       ELSE IF sender.balance < tx.amount
       THEN [self |-> [self EXCEPT !.accounts = bumped],
             tx |-> [tx EXCEPT !.status =
                        Failed(<<"Insufficient balance", sender.balance, tx.amount>>)],
             ret |-> Err("Failed: Insufficient balance", "")]
       ELSE IF overflow /\ checks
       THEN [self |-> [self EXCEPT !.accounts = debited], tx |-> tx,
             ret |-> Panic("attempt to add with overflow")]
       ELSE [self |-> [self EXCEPT !.accounts = credited],
             tx |-> [tx EXCEPT !.status = Executed], ret |-> Ok]

\* execute_transaction without the increment of the sender's nonce.
execute_transaction_nonce_kept(self, checks, tx) ==
    IF tx.from \notin DOMAIN self.accounts
    THEN [self |-> self, tx |-> tx, ret |-> Err("Sender account does not exist", tx.from)]
    ELSE
    LET sender == self.accounts[tx.from]
        debited == [self.accounts EXCEPT ![tx.from].balance = sender.balance - tx.amount]
        overflow == tx.to \in DOMAIN debited /\ debited[tx.to].balance + tx.amount > U64_MAX
        credited == IF tx.to \in DOMAIN debited
                    THEN [debited EXCEPT ![tx.to].balance =
                             (debited[tx.to].balance + tx.amount) % (U64_MAX + 1)]
                    ELSE Insert(debited, tx.to, Account_new(tx.to, tx.amount))
    IN IF tx.nonce # sender.nonce
       THEN [self |-> self,
             tx |-> [tx EXCEPT !.status = Failed(<<"Invalid nonce", sender.nonce, tx.nonce>>)],
             ret |-> Err("Failed: Invalid nonce", "")]
       ELSE IF sender.balance < tx.amount
       THEN [self |-> self,
             tx |-> [tx EXCEPT !.status =
                        Failed(<<"Insufficient balance", sender.balance, tx.amount>>)],
             ret |-> Err("Failed: Insufficient balance", "")]
       ELSE IF overflow /\ checks
       THEN [self |-> [self EXCEPT !.accounts = debited], tx |-> tx,
             ret |-> Panic("attempt to add with overflow")]
       ELSE [self |-> [self EXCEPT !.accounts = credited],
             tx |-> [tx EXCEPT !.status = Executed], ret |-> Ok]

\* execute_transaction: [self, tx, ret]. A u64 addition that overflows panics in
\* a build with overflow checks and wraps otherwise.
execute_transaction(self, checks, tx) ==
    IF tx.from \notin DOMAIN self.accounts
    THEN [self |-> self, tx |-> tx, ret |-> Err("Sender account does not exist", tx.from)]
    ELSE
    LET sender == self.accounts[tx.from]
        debited == [self.accounts EXCEPT ![tx.from] =
                       [sender EXCEPT !.balance = sender.balance - tx.amount,
                                      !.nonce = sender.nonce + 1]]
        overflow == tx.to \in DOMAIN debited /\ debited[tx.to].balance + tx.amount > U64_MAX
        credited == IF tx.to \in DOMAIN debited
                    THEN [debited EXCEPT ![tx.to].balance =
                             (debited[tx.to].balance + tx.amount) % (U64_MAX + 1)]
                    ELSE Insert(debited, tx.to, Account_new(tx.to, tx.amount))
    IN IF tx.nonce # sender.nonce
       THEN [self |-> self,
             tx |-> [tx EXCEPT !.status = Failed(<<"Invalid nonce", sender.nonce, tx.nonce>>)],
             ret |-> Err("Failed: Invalid nonce", "")]
       ELSE IF sender.balance < tx.amount
       THEN [self |-> self,
             tx |-> [tx EXCEPT !.status =
                        Failed(<<"Insufficient balance", sender.balance, tx.amount>>)],
             ret |-> Err("Failed: Insufficient balance", "")]
       ELSE IF overflow /\ checks
       THEN [self |-> [self EXCEPT !.accounts = debited], tx |-> tx,
             ret |-> Panic("attempt to add with overflow")]
       ELSE [self |-> [self EXCEPT !.accounts = credited],
             tx |-> [tx EXCEPT !.status = Executed], ret |-> Ok]

\* One step of the history kept in trace.
Step(op, hash, index, tx, before, done) ==
    [op |-> op, hash |-> hash, index |-> index, tx |-> tx, before |-> before,
     after |-> done.self.accounts, status |-> done.tx.status, ret |-> done.ret]

\* The inner loop of execute_blue_chain over the cloned transactions of one block:
\* [self, results, steps, panic].
RECURSIVE ExecuteTransactions(_, _, _, _, _, _, _)
ExecuteTransactions(self, checks, hash, transactions, i, results, steps) ==
    IF i > Len(transactions)
    THEN [self |-> self, results |-> results, steps |-> steps, panic |-> FALSE]
    ELSE LET done == execute_transaction(self, checks, transactions[i])
             step == Step("execute", hash, i, transactions[i], self.accounts, done)
         IN IF done.ret.tag = "Panic"
            THEN [self |-> done.self, results |-> results,
                  steps |-> Append(steps, step), panic |-> TRUE]
            ELSE ExecuteTransactions(done.self, checks, hash, transactions, i + 1,
                                     Append(results, done.tx), Append(steps, step))

\* The outer loop of execute_blue_chain over block_hashes: [self, steps, panic].
RECURSIVE ExecuteBlocks(_, _, _, _, _)
ExecuteBlocks(self, checks, block_hashes, n, steps) ==
    IF n > Len(block_hashes) THEN [self |-> self, steps |-> steps, panic |-> FALSE]
    ELSE LET hash == block_hashes[n]
             transactions == self.blocks[hash].transactions
             run == ExecuteTransactions(self, checks, hash, transactions, 1, << >>, steps)
             written == [run.self EXCEPT !.blocks[hash].transactions =
                            [i \in 1..Len(transactions) |->
                                IF i <= Len(run.results) THEN run.results[i]
                                ELSE transactions[i]]]
         IN IF hash \notin DOMAIN self.blocks
            THEN ExecuteBlocks(self, checks, block_hashes, n + 1, steps)
            ELSE IF run.panic
            THEN [self |-> run.self, steps |-> run.steps, panic |-> TRUE]
            ELSE ExecuteBlocks(written, checks, block_hashes, n + 1, run.steps)

\* execute_blue_chain, for one order block_hashes that get_ordered_blue_blocks can give.
execute_blue_chain(self, checks, block_hashes) ==
    LET run == ExecuteBlocks(self, checks, block_hashes, 1, << >>)
    IN [self |-> run.self, steps |-> run.steps,
        ret |-> IF run.panic THEN Panic("attempt to add with overflow") ELSE Ok]

\* revert_transaction without the guard of lines 443-445: always deducts.
revert_transaction_always_deducts(self, checks, tx) ==
    LET restored == IF tx.from \in DOMAIN self.accounts
                    THEN [self.accounts EXCEPT ![tx.from] =
                            [@ EXCEPT !.balance = (@ + tx.amount) % (U64_MAX + 1),
                                      !.nonce = IF @ = 0 THEN 0 ELSE @ - 1]]
                    ELSE self.accounts
        deducted == IF tx.to \in DOMAIN restored
                    THEN [restored EXCEPT ![tx.to].balance = @ - tx.amount]
                    ELSE restored
    IN IF tx.status # Executed
       THEN [self |-> self, tx |-> tx, ret |-> Err("Transaction was not executed", "")]
       ELSE [self |-> [self EXCEPT !.accounts = deducted],
             tx |-> [tx EXCEPT !.status = Reverted], ret |-> Ok]

\* revert_transaction: [self, tx, ret].
revert_transaction(self, checks, tx) ==
    LET overflow == tx.from \in DOMAIN self.accounts
                    /\ self.accounts[tx.from].balance + tx.amount > U64_MAX
        restored == IF tx.from \in DOMAIN self.accounts
                    THEN [self.accounts EXCEPT ![tx.from] =
                            [@ EXCEPT !.balance = (@ + tx.amount) % (U64_MAX + 1),
                                      !.nonce = IF @ = 0 THEN 0 ELSE @ - 1]]
                    ELSE self.accounts
        deducted == IF tx.to \in DOMAIN restored /\ restored[tx.to].balance >= tx.amount
                    THEN [restored EXCEPT ![tx.to].balance = @ - tx.amount]
                    ELSE restored
    IN IF tx.status # Executed
       THEN [self |-> self, tx |-> tx, ret |-> Err("Transaction was not executed", "")]
       ELSE IF overflow /\ checks
       THEN [self |-> self, tx |-> tx, ret |-> Panic("attempt to add with overflow")]
       ELSE [self |-> [self EXCEPT !.accounts = deducted],
             tx |-> [tx EXCEPT !.status = Reverted], ret |-> Ok]

\* The loop of revert_block, i from tx_count down to 1: [self, reverted_txs, steps, ret].
RECURSIVE RevertTransactions(_, _, _, _, _, _, _)
RevertTransactions(self, checks, hash, transactions, i, reverted_txs, steps) ==
    IF i < 1
    THEN [self |-> self, reverted_txs |-> reverted_txs, steps |-> steps, ret |-> Ok]
    ELSE LET done == revert_transaction(self, checks, transactions[i])
             step == Step("revert", hash, i, transactions[i], self.accounts, done)
         IN IF done.ret.tag # "Ok"
            THEN [self |-> done.self, reverted_txs |-> reverted_txs,
                  steps |-> Append(steps, step), ret |-> done.ret]
            ELSE RevertTransactions(done.self, checks, hash, transactions, i - 1,
                                    Append(reverted_txs, <<i, done.tx>>),
                                    Append(steps, step))

\* revert_block that takes a block it does not find for a block without transactions.
revert_block_absent_is_empty(self, checks, block_hash) ==
    IF block_hash \notin DOMAIN self.blocks
    THEN [self |-> self, steps |-> << >>, ret |-> Ok]
    ELSE
    LET transactions == self.blocks[block_hash].transactions
        run == RevertTransactions(self, checks, block_hash, transactions,
                                  Len(transactions), << >>, << >>)
        written == [run.self EXCEPT !.blocks[block_hash].transactions =
                       [i \in 1..Len(transactions) |->
                           (CHOOSE e \in Range(run.reverted_txs) : e[1] = i)[2]]]
    IN IF run.ret.tag # "Ok"
       THEN [self |-> run.self, steps |-> run.steps, ret |-> run.ret]
       ELSE [self |-> written, steps |-> run.steps, ret |-> Ok]

\* revert_block: [self, steps, ret].
revert_block(self, checks, block_hash) ==
    IF block_hash \notin DOMAIN self.blocks
    THEN [self |-> self, steps |-> << >>, ret |-> Err("Block does not exist", block_hash)]
    ELSE
    LET transactions == self.blocks[block_hash].transactions
        run == RevertTransactions(self, checks, block_hash, transactions,
                                  Len(transactions), << >>, << >>)
        written == [run.self EXCEPT !.blocks[block_hash].transactions =
                       [i \in 1..Len(transactions) |->
                           (CHOOSE e \in Range(run.reverted_txs) : e[1] = i)[2]]]
    IN IF run.ret.tag # "Ok"
       THEN [self |-> run.self, steps |-> run.steps, ret |-> run.ret]
       ELSE [self |-> written, steps |-> run.steps, ret |-> Ok]

add_account(self, address, balance) ==
    [self EXCEPT !.accounts = Insert(self.accounts, address, Account_new(address, balance))]

----------------------------------------------------------------------------
\* The Dag helper of src/src/lib.rs.

Node_new(id, data) == [id |-> id, data |-> data]

Dag_new == [nodes |-> << >>, edges |-> << >>]

\* add_node that replaces the stored node of the same id and still reports it.
add_node_overwriting(self, node) ==
    [self |-> [nodes |-> Insert(self.nodes, node.id, node),
               edges |-> Insert(self.edges, node.id, {})],
     ret |-> IF node.id \in DOMAIN self.nodes
             THEN Err("Node with id '" \o node.id \o "' already exists", "")
             ELSE Ok]

\* add_node: [self, ret].
add_node(self, node) ==
    IF node.id \in DOMAIN self.nodes
    THEN [self |-> self,
          ret |-> Err("Node with id '" \o node.id \o "' already exists", "")]
    ELSE [self |-> [nodes |-> Insert(self.nodes, node.id, node),
                    edges |-> Insert(self.edges, node.id, {})],
          ret |-> Ok]

\* has_path: breadth-first search from start over edges; the answer does not
\* depend on the order in which the queue and the child sets are walked.
RECURSIVE HasPathLoop(_, _, _, _)
HasPathLoop(self, queue, visited, end) ==
    IF queue = {} THEN FALSE
    ELSE LET current == CHOOSE c \in queue : TRUE
             children == IF current \in DOMAIN self.edges
                         THEN self.edges[current] ELSE {}
             fresh == children \ visited
         IN IF end \in children THEN TRUE
            ELSE HasPathLoop(self, (queue \ {current}) \cup fresh,
                             visited \cup fresh, end)

has_path(self, start, end) ==
    IF start = end THEN TRUE
    ELSE HasPathLoop(self, {start}, {start}, end)

\* would_create_cycle that looks for the path in the direction of the new edge.
would_create_cycle_forward(self, from, to) == has_path(self, from, to)

would_create_cycle(self, from, to) == has_path(self, to, from)

\* add_edge: [self, ret].
add_edge(self, from, to) ==
    IF from \notin DOMAIN self.nodes
    THEN [self |-> self, ret |-> Err("Source node '" \o from \o "' does not exist", "")]
    ELSE IF to \notin DOMAIN self.nodes
    THEN [self |-> self, ret |-> Err("Target node '" \o to \o "' does not exist", "")]
    ELSE IF would_create_cycle(self, from, to)
    THEN [self |-> self,
          ret |-> Err("Adding edge from '" \o from \o "' to '" \o to
                         \o "' would create a cycle", "")]
    ELSE [self |-> [self EXCEPT !.edges[from] = @ \cup {to}], ret |-> Ok]

\* The orders in which a HashMap or HashSet can hand out the elements of S.
Orders(S) == {s \in [1..Cardinality(S) -> S] : Range(s) = S}

\* The loop of topological_sort (lines 145-158): the results it can end with.
\* The children that reach in-degree 0 are queued in the order of the child set.
RECURSIVE KahnLoop(_, _, _, _)
KahnLoop(self, in_degree, queue, result) ==
    IF queue = << >> THEN {result}
    ELSE LET node_id == Head(queue)
             children == IF node_id \in DOMAIN self.edges
                         THEN self.edges[node_id] ELSE {}
             reduced == [n \in DOMAIN in_degree |->
                            IF n \in children THEN in_degree[n] - 1 ELSE in_degree[n]]
             zero == {c \in children : reduced[c] = 0}
         IN UNION {KahnLoop(self, reduced, Tail(queue) \o pushed,
                            Append(result, self.nodes[node_id])) :
                      pushed \in Orders(zero)}

\* topological_sort that returns the nodes in whatever order the map holds them.
topological_sort_in_map_order(self) ==
    {[ret |-> Ok, result |-> [i \in DOMAIN ids |-> self.nodes[ids[i]]]] :
        ids \in Orders(DOMAIN self.nodes)}

\* topological_sort: the set of [ret, result] it can return; which one depends
\* on the iteration order of in_degree and of the child sets.
topological_sort(self) ==
    LET dangling == \E p \in DOMAIN self.edges :
                       self.edges[p] \ DOMAIN self.nodes # {}
        in_degree == [n \in DOMAIN self.nodes |->
                         Cardinality({p \in DOMAIN self.edges : n \in self.edges[p]})]
        first == {n \in DOMAIN in_degree : in_degree[n] = 0}
        results == UNION {KahnLoop(self, in_degree, queue, << >>) :
                             queue \in Orders(first)}
    IN IF dangling
       THEN {[ret |-> Panic("called Option::unwrap() on a None value"),
              result |-> << >>]}
       ELSE {IF Len(result) # Cardinality(DOMAIN self.nodes)
             THEN [ret |-> Err("DAG contains a cycle", ""), result |-> << >>]
             ELSE [ret |-> Ok, result |-> result] : result \in results}

----------------------------------------------------------------------------
\* The state machine.

Self == [blocks |-> blocks, children_mapping |-> children_mapping,
         accounts |-> accounts, k |-> k]

\* A call as kept in last: the operation, what it returned and, for add_block,
\* how many parents the block named and how many of them were in the ledger.
Call(op, ret, named, found) == [op |-> op, ret |-> ret, named |-> named, found |-> found]

ParentsFound(block) ==
    Cardinality({i \in 1..Len(block.parent_hashes) :
                    block.parent_hashes[i] \in DOMAIN blocks})

\* A call on the Dag as kept in dag_last: the operation, its arguments, what
\* it returned and, for topological_sort, the nodes it returned.
NoNode == Node_new("", "")
DagCall(op, node, from, to, ret, result) ==
    [op |-> op, node |-> node, from |-> from, to |-> to, ret |-> ret, result |-> result]

Init ==
    /\ k \in 0..MaxK
    /\ overflow_checks \in BOOLEAN
    /\ blocks = BlockDAG_new(k).blocks
    /\ children_mapping = BlockDAG_new(k).children_mapping
    /\ accounts = BlockDAG_new(k).accounts
    /\ last = Call("new", Ok, 0, 0)
    /\ trace = << >>
    /\ inserted = 0
    /\ panicked = FALSE
    /\ nodes = Dag_new.nodes
    /\ edges = Dag_new.edges
    /\ dag_last = DagCall("new", NoNode, "", "", Ok, << >>)
    /\ refunded = {}

\* The <<hash, index>> of the transactions that the steps of a call left with
\* the given status: Executed by a pass, Reverted (sender credited) by a revert.
LeftWith(steps, status) ==
    {<<steps[i].hash, steps[i].index>> : i \in {j \in DOMAIN steps :
                                                  /\ steps[j].ret = Ok
                                                  /\ steps[j].status = status}}

AddAccount(address, balance) ==
    /\ ~panicked
    /\ accounts' = add_account(Self, address, balance).accounts
    /\ last' = Call("add_account", Ok, 0, 0)
    /\ trace' = << >>
    /\ UNCHANGED <<k, overflow_checks, blocks, children_mapping, inserted, panicked>>
    /\ UNCHANGED <<nodes, edges, dag_last, refunded>>

AddBlock(block) ==
    /\ ~panicked
    /\ \E done \in {add_block(Self, overflow_checks, block)} :
          /\ blocks' = done.self.blocks
          /\ children_mapping' = done.self.children_mapping
          /\ accounts' = done.self.accounts
          /\ last' = Call("add_block", done.ret, Len(block.parent_hashes), ParentsFound(block))
          /\ inserted' = IF done.ret = Ok THEN inserted + 1 ELSE inserted
          /\ panicked' = (done.ret.tag = "Panic")
          /\ refunded' = IF done.ret.tag = "Err" THEN refunded
                         ELSE {e \in refunded : e[1] # block.hash}
    /\ trace' = << >>
    /\ UNCHANGED <<k, overflow_checks, nodes, edges, dag_last>>

ExecuteBlueChain ==
    /\ ~panicked
    /\ \E block_hashes \in get_ordered_blue_blocks(Self) :
          \E done \in {execute_blue_chain(Self, overflow_checks, block_hashes)} :
             /\ blocks' = done.self.blocks
             /\ accounts' = done.self.accounts
             /\ last' = Call("execute_blue_chain", done.ret, 0, 0)
             /\ trace' = done.steps
             /\ panicked' = (done.ret.tag = "Panic")
             /\ refunded' = refunded \ LeftWith(done.steps, Executed)
    /\ UNCHANGED <<k, overflow_checks, children_mapping, inserted>>
    /\ UNCHANGED <<nodes, edges, dag_last>>

RevertBlock(block_hash) ==
    /\ ~panicked
    /\ \E done \in {revert_block(Self, overflow_checks, block_hash)} :
          /\ blocks' = done.self.blocks
          /\ accounts' = done.self.accounts
          /\ last' = Call("revert_block", done.ret, 0, 0)
          /\ trace' = done.steps
          /\ panicked' = (done.ret.tag = "Panic")
          /\ refunded' = refunded \cup LeftWith(done.steps, Reverted)
    /\ UNCHANGED <<k, overflow_checks, children_mapping, inserted>>
    /\ UNCHANGED <<nodes, edges, dag_last>>

\* Inputs.
\* Parent lists of at most two hashes; a pair is listed in one order only (no
\* operation depends on the order of parent_hashes), the same parent twice included.
ParentPairs == {<<p, q>> : p \in Hashes, q \in Hashes}
ParentLists == {<< >>} \cup {<<p>> : p \in Hashes}
                  \cup {pq \in ParentPairs : HashRank(pq[1]) <= HashRank(pq[2])}

DagBlocks == {Block_new(h, ps, << >>, ts) : h \in Hashes, ps \in ParentLists, ts \in Timestamps}

\* SpecDag: accepted add_block calls only, blocks without transactions.
Accepted(block) == Range(block.parent_hashes) \subseteq DOMAIN blocks

NextDag == \E block \in DagBlocks :
              inserted < MaxDagAdds /\ Accepted(block) /\ AddBlock(block)

SpecDag == Init /\ [][NextDag]_vars

\* SpecWide: ledgers of up to four non-genesis blocks, each added once under
\* a hash that is new, with one parent that is stored.
MaxWideAdds == 4
WideHashes == {"b1", "b2", "b3", "b4"}
WideBlocks == {Block_new(h, <<p>>, << >>, ts) :
                  h \in WideHashes, p \in WideHashes \cup {"genesis"}, ts \in Timestamps}

NextWide == \E block \in WideBlocks :
               /\ inserted < MaxWideAdds
               /\ block.hash \notin DOMAIN blocks
               /\ Accepted(block)
               /\ AddBlock(block)

SpecWide == Init /\ [][NextWide]_vars

\* Spec: every operation, on a small ledger.
MaxAdds == 2         \* accepted add_block calls in Spec
MaxTxs == 2          \* transactions in the ledger, over all blocks, in Spec

LedgerHashes == {"b1", "b2"}
LedgerParents == {<<"genesis">>, <<"genesis", "b1">>}
AccountInputs == {<<"alice", 1>>, <<"alice", U64_MAX>>, <<"bob", U64_MAX>>}
Txs == {Transaction_new("t1", "alice", "bob", 2, 0),
        Transaction_new("t2", "alice", "bob", 1, 1),
        Transaction_new("t3", "bob", "alice", 1, 0),
        Transaction_new("t4", "alice", "alice", 1, 0)}
TxLists == {<< >>} \cup {<<t>> : t \in Txs}
              \cup {tu \in {<<t, u>> : t \in Txs, u \in Txs} : tu[1] # tu[2]}

LedgerBlocks == {Block_new(h, ps, txs, 100) :
                    h \in LedgerHashes, ps \in LedgerParents, txs \in TxLists}

RECURSIVE SumLen(_)
SumLen(S) == IF S = {} THEN 0
             ELSE LET x == CHOOSE y \in S : TRUE
                  IN Len(blocks[x].transactions) + SumLen(S \ {x})

TxCount == SumLen(DOMAIN blocks)

Next ==
    \/ \E a \in AccountInputs : AddAccount(a[1], a[2])
    \/ \E block \in LedgerBlocks :
          /\ inserted < MaxAdds
          /\ TxCount + Len(block.transactions) <= MaxTxs
          /\ AddBlock(block)
    \/ ExecuteBlueChain
    \/ \E block_hash \in LedgerHashes : RevertBlock(block_hash)

Spec == Init /\ [][Next]_vars

----------------------------------------------------------------------------
\* The state machine of the Dag helper.

DagSelf == [nodes |-> nodes, edges |-> edges]

Ledger == <<k, overflow_checks, blocks, children_mapping, accounts, last, trace,
            inserted, panicked, refunded>>

AddNode(node) ==
    /\ \E done \in {add_node(DagSelf, node)} :
          /\ nodes' = done.self.nodes
          /\ edges' = done.self.edges
          /\ dag_last' = DagCall("add_node", node, "", "", done.ret, << >>)
    /\ UNCHANGED Ledger

AddEdge(from, to) ==
    /\ \E done \in {add_edge(DagSelf, from, to)} :
          /\ nodes' = done.self.nodes
          /\ edges' = done.self.edges
          /\ dag_last' = DagCall("add_edge", NoNode, from, to, done.ret, << >>)
    /\ UNCHANGED Ledger

TopologicalSort ==
    /\ \E done \in topological_sort(DagSelf) :
          dag_last' = DagCall("topological_sort", NoNode, "", "", done.ret, done.result)
    /\ UNCHANGED <<nodes, edges>>
    /\ UNCHANGED Ledger

\* Inputs: four node ids, and two different data strings for the id "A".
NodeIds == {"A", "B", "C", "D"}
NodeInputs == {Node_new(id, "Node " \o id) : id \in NodeIds}
                 \cup {Node_new("A", "Another Node A")}

InitHelper == Init /\ k = 0 /\ overflow_checks = FALSE

NextHelper ==
    \/ \E node \in NodeInputs : AddNode(node)
    \/ \E from \in NodeIds, to \in NodeIds : AddEdge(from, to)
    \/ TopologicalSort

SpecHelper == InitHelper /\ [][NextHelper]_vars

----------------------------------------------------------------------------
\* Vocabulary of the claims.

Blue == {h \in DOMAIN blocks : blocks[h].color = "Blue"}
Red == {h \in DOMAIN blocks : blocks[h].color = "Red"}
NonGenesis == DOMAIN blocks \ {"genesis"}

\* Every accepted add_block so far brought a hash that was not in the ledger.
Fresh == inserted + 1 = Cardinality(DOMAIN blocks)

\* The block stored under h as it was handed to add_block.
AsInserted(h) == [blocks[h] EXCEPT !.color = "Blue", !.weight = 0]

\* The orders in which the blocks of the ledger can be inserted, parents first.
InsertionOrders ==
    {s \in [1..Cardinality(NonGenesis) -> NonGenesis] :
        /\ \A i, j \in DOMAIN s : i < j => s[i] # s[j]
        /\ \A i \in DOMAIN s :
              Range(blocks[s[i]].parent_hashes) \subseteq {"genesis"} \cup {s[j] : j \in 1..(i - 1)}}

\* The ledger a new BlockDAG becomes when the blocks are added in the given order.
RECURSIVE ReplayFrom(_, _, _)
ReplayFrom(self, order, i) ==
    IF i > Len(order) THEN self
    ELSE ReplayFrom(add_block(self, overflow_checks, AsInserted(order[i])).self, order, i + 1)

Replay(order) == ReplayFrom(BlockDAG_new(k), order, 1)

ColorsAndWeights(bs) == [h \in DOMAIN bs |-> <<bs[h].color, bs[h].weight>>]

\* The ledger is a linear chain genesis <- c[1] <- ... <- c[n], each block added once.
Chains == {c \in InsertionOrders :
              \A i \in DOMAIN c :
                 blocks[c[i]].parent_hashes = <<IF i = 1 THEN "genesis" ELSE c[i - 1]>>}

----------------------------------------------------------------------------
\* Claims.

\* C1: add_block of a block that names a parent id not present in the DAG returns
\* the missing-parent error and leaves block map, child adjacency, colors, weights
\* and accounts as they were, also when other parents of the block exist.
C1_MissingParentIsAllOrNothing ==
    [][(last'.op = "add_block" /\ last'.found < last'.named) =>
          /\ last'.ret.tag = "Err"
          /\ last'.ret.err = "Parent block does not exist"
          /\ last'.ret.arg \notin DOMAIN blocks
          /\ UNCHANGED <<blocks, children_mapping, accounts, k>>]_vars

C1_Witness ==
    /\ last.op = "add_block" /\ last.ret.tag = "Err"
    /\ last.named = 2 /\ last.found = 1
    /\ DOMAIN accounts # {}
    /\ NonGenesis # {}

\* C2: in every state the weights of the Blue blocks are exactly 1..n, genesis is
\* Blue with weight 1, and get_ordered_blue_blocks gives exactly the Blue blocks
\* in strictly increasing weight, genesis first.
C2_BlueWeightsAreOneToN ==
    ~panicked =>
       /\ {blocks[h].weight : h \in Blue} = 1..Cardinality(Blue)
       /\ "genesis" \in Blue /\ blocks["genesis"].weight = 1
       /\ \A s \in get_ordered_blue_blocks(Self) :
             /\ Range(s) = Blue /\ Len(s) = Cardinality(Blue)
             /\ s[1] = "genesis"
             /\ \A i \in 1..(Len(s) - 1) : blocks[s[i]].weight < blocks[s[i + 1]].weight
       /\ Cardinality(get_ordered_blue_blocks(Self)) = 1

C2_Witness ==
    /\ Cardinality(Blue) = 3 /\ Red = {}
    /\ last.op = "revert_block" /\ last.ret = Ok
    /\ \E h \in Blue : \E i \in DOMAIN blocks[h].transactions :
          blocks[h].transactions[i].status = Reverted

\* C3: after add_block returns, a block is Red exactly when its weight is 0.
C3_RedIffWeightZero ==
    ~panicked => \A h \in DOMAIN blocks : (blocks[h].color = "Red") <=> (blocks[h].weight = 0)

C3_Witness == last.op = "add_block" /\ last.ret = Ok /\ Red # {} /\ Cardinality(Blue) >= 2

\* C4: two ledgers with the same k that receive the same set of blocks in two
\* different orders, parents before children, end with the same color and the same
\* weight for every block.
C4_InsertionOrderDoesNotMatter ==
    (Fresh /\ ~panicked) =>
       \A order \in InsertionOrders :
          ColorsAndWeights(Replay(order).blocks) = ColorsAndWeights(blocks)

C4_Witness ==
    /\ Fresh /\ ~panicked
    /\ Cardinality(InsertionOrders) >= 2
    /\ Red # {} /\ Cardinality(Blue) >= 2

\* C5: after any add_block every Blue block has a strictly larger weight than each
\* of its Blue ancestors.
C5_BlueAncestorsWeighLess ==
    ~panicked =>
       \A h \in Blue : \A a \in get_ancestors(Self, h) \cap Blue :
          blocks[a].weight < blocks[h].weight

\* C6: with k = 0 any two distinct Blue blocks are related by ancestry.
C6_BlueIsOneChainWhenKIsZero ==
    (k = 0 /\ ~panicked) =>
       \A a, b \in Blue :
          a # b => (a \in get_ancestors(Self, b) \/ b \in get_ancestors(Self, a))

\* C7: for every k, after the insertion of a linear chain genesis <- b1 <- ... <- bn
\* all blocks are Blue and the i-th block of the chain has weight i + 1, whatever
\* the timestamps.
C7_LinearChainIsAllBlue ==
    (Fresh /\ ~panicked) =>
       \A c \in Chains :
          /\ blocks["genesis"].color = "Blue" /\ blocks["genesis"].weight = 1
          /\ \A i \in DOMAIN c : blocks[c[i]].color = "Blue" /\ blocks[c[i]].weight = i + 1

C7_Witness ==
    /\ Fresh /\ ~panicked /\ k = 0
    /\ \E c \in Chains : Len(c) = 3 /\ blocks[c[1]].timestamp > blocks[c[3]].timestamp

\* The accounts a successful execution of tx must leave, from the accounts before.
Applied(before, tx) ==
    [a \in DOMAIN before \cup {tx.to} |->
        LET old == IF a \in DOMAIN before THEN before[a] ELSE Account_new(a, 0)
        IN [address |-> a,
            balance |-> old.balance - (IF a = tx.from THEN tx.amount ELSE 0)
                                    + (IF a = tx.to THEN tx.amount ELSE 0),
            nonce |-> old.nonce + (IF a = tx.from THEN 1 ELSE 0)]]

ExecuteSteps == {i \in DOMAIN trace : trace[i].op = "execute"}

Valid(st) ==
    /\ st.tx.from \in DOMAIN st.before
    /\ st.tx.nonce = st.before[st.tx.from].nonce
    /\ st.tx.amount <= st.before[st.tx.from].balance

\* C8: a transaction whose sender exists, whose nonce is the sender's nonce and
\* whose amount is at most the sender's balance is applied: sender debited, sender
\* nonce + 1, receiver credited (created if absent), status Executed, no other
\* account changed.
C8_ValidTransactionIsApplied ==
    \A i \in ExecuteSteps :
       Valid(trace[i]) =>
          /\ trace[i].status = Executed
          /\ trace[i].after = Applied(trace[i].before, trace[i].tx)

\* C9: a transaction whose nonce differs from the sender's nonce, or whose amount
\* exceeds the sender's balance, becomes Failed with a reason naming the nonce or
\* the balance, and changes and creates no account.
C9_InvalidTransactionFailsWithoutEffect ==
    \A i \in ExecuteSteps :
       LET st == trace[i]
       IN (st.tx.from \in DOMAIN st.before /\ ~Valid(st)) =>
             /\ st.status.kind = "Failed"
             /\ st.status.reason[1] \in {"Invalid nonce", "Insufficient balance"}
             /\ st.tx.nonce # st.before[st.tx.from].nonce =>
                   st.status.reason = <<"Invalid nonce", st.before[st.tx.from].nonce, st.tx.nonce>>
             /\ st.tx.nonce = st.before[st.tx.from].nonce =>
                   st.status.reason =
                      <<"Insufficient balance", st.before[st.tx.from].balance, st.tx.amount>>
             /\ st.after = st.before
             /\ ~panicked => blocks[st.hash].transactions[st.index].status = st.status

C9_Witness ==
    \E i, j \in ExecuteSteps :
       /\ trace[i].status.kind = "Failed" /\ trace[i].status.reason[1] = "Invalid nonce"
       /\ trace[j].status.kind = "Failed" /\ trace[j].status.reason[1] = "Insufficient balance"
       /\ trace[j].before[trace[j].tx.from].nonce = 1

\* C10: execute_blue_chain returns success, and every transaction that hit a
\* transaction error during the pass (unknown sender, nonce mismatch, insufficient
\* balance) has status Failed in its block when the call returns.
C10_EveryErrorIsMarkedFailed ==
    last.op = "execute_blue_chain" =>
       /\ last.ret = Ok
       /\ \A i \in ExecuteSteps :
             trace[i].ret.tag = "Err" =>
                blocks[trace[i].hash].transactions[trace[i].index].status.kind = "Failed"

\* The transactions of the Blue blocks that come after step i of the pass: later in
\* the same block, or in a Blue block of higher weight.
LaterThan(i) ==
    {hx \in Blue \X (1..MaxTxs) :
        /\ hx[2] <= Len(blocks[hx[1]].transactions)
        /\ \/ hx[1] = trace[i].hash /\ hx[2] > trace[i].index
           \/ blocks[hx[1]].weight > blocks[trace[i].hash].weight}

\* C11: in one execute_blue_chain call every transaction that comes after a failed
\* transaction, in the same block or in a Blue block of higher weight, is still
\* attempted, and is Executed if it is valid against the accounts at its turn.
C11_FailureDoesNotStopThePass ==
    last.op = "execute_blue_chain" =>
       \A i \in ExecuteSteps :
          trace[i].ret.tag = "Err" =>
             \A hx \in LaterThan(i) :
                \E j \in ExecuteSteps :
                   /\ j > i /\ trace[j].hash = hx[1] /\ trace[j].index = hx[2]
                   /\ Valid(trace[j]) =>
                         /\ trace[j].status = Executed
                         /\ blocks[hx[1]].transactions[hx[2]].status = Executed

\* The transactions of the Blue blocks, as (hash, index) pairs.
BlueTransactions ==
    {hx \in Blue \X (1..MaxTxs) : hx[2] <= Len(blocks[hx[1]].transactions)}

\* C12: execute_blue_chain attempts exactly the transactions of the Blue blocks,
\* blocks in increasing weight and transactions in list order; each transaction is
\* validated against the accounts left by the transactions before it, and its
\* resulting status is stored at the same index of its block.
C12_PassFollowsCanonicalOrder ==
    [][last'.op = "execute_blue_chain" =>
          /\ {<<trace'[i].hash, trace'[i].index>> : i \in DOMAIN trace'} = BlueTransactions
          /\ \A i, j \in DOMAIN trace' :
                i < j =>
                   \/ blocks[trace'[i].hash].weight < blocks[trace'[j].hash].weight
                   \/ /\ trace'[i].hash = trace'[j].hash
                      /\ trace'[i].index < trace'[j].index
          /\ \A i \in DOMAIN trace' :
                /\ trace'[i].tx = blocks[trace'[i].hash].transactions[trace'[i].index]
                /\ trace'[i].before = IF i = 1 THEN accounts ELSE trace'[i - 1].after
                /\ (trace'[i].status = Executed) <=> Valid(trace'[i])
                /\ blocks'[trace'[i].hash].transactions[trace'[i].index].status
                      = trace'[i].status
          /\ accounts' = IF trace' = << >> THEN accounts ELSE trace'[Len(trace')].after]_vars

\* C13: execute_blue_chain leaves every block that is Red at the time of the call
\* as it is (the status of each of its transactions included), attempts none of its
\* transactions, and changes the accounts only through the transactions it attempts.
C13_RedBlocksAreIgnored ==
    [][last'.op = "execute_blue_chain" =>
          /\ \A h \in Red :
                /\ blocks'[h] = blocks[h]
                /\ \A i \in DOMAIN trace' : trace'[i].hash # h
          /\ accounts' = IF trace' = << >> THEN accounts ELSE trace'[Len(trace')].after]_vars

C13_Witness ==
    /\ last.op = "execute_blue_chain" /\ last.ret = Ok
    /\ \E i \in ExecuteSteps : trace[i].status = Executed
    /\ \E h \in Red : \E i \in DOMAIN blocks[h].transactions :
          LET tx == blocks[h].transactions[i]
          IN /\ tx.status = Pending
             /\ tx.from \in DOMAIN accounts
             /\ tx.nonce = accounts[tx.from].nonce
             /\ tx.amount <= accounts[tx.from].balance

BalanceIn(accs, address) == IF address \in DOMAIN accs THEN accs[address].balance ELSE 0

\* C15: when execute_blue_chain has executed the single transaction of a block, a
\* revert_block of that block right after the pass succeeds, gives sender and
\* receiver the balances and the sender the nonce they had before the execution
\* (a receiver the transaction created is back at 0), and sets the status Reverted.
C15_RevertRestoresSingleTransaction ==
    [][(/\ last.op = "execute_blue_chain" /\ last.ret = Ok
        /\ last'.op = "revert_block" /\ trace' # << >>) =>
          \A i \in DOMAIN trace :
             (/\ trace[i].hash = trace'[1].hash
              /\ Len(blocks[trace[i].hash].transactions) = 1
              /\ trace[i].status = Executed) =>
                LET tx == trace[i].tx
                    before == trace[i].before
                IN /\ last'.ret = Ok
                   /\ accounts'[tx.from].balance = before[tx.from].balance
                   /\ accounts'[tx.from].nonce = before[tx.from].nonce
                   /\ BalanceIn(accounts', tx.to) = BalanceIn(before, tx.to)
                   /\ blocks'[trace[i].hash].transactions[1].status = Reverted]_vars

\* The last pass executed every transaction of block h, which has several and is
\* the only block with transactions.
WholeBlockExecuted(h) ==
    /\ last.op = "execute_blue_chain" /\ last.ret = Ok
    /\ Len(blocks[h].transactions) >= 2
    /\ \A g \in DOMAIN blocks : g # h => blocks[g].transactions = << >>
    /\ Len(trace) = Len(blocks[h].transactions)
    /\ \A i \in DOMAIN trace : trace[i].hash = h /\ trace[i].status = Executed

\* C16: when one pass of execute_blue_chain has executed all the transactions of a
\* block with several transactions, the only block with transactions, revert_block
\* of it right after the pass succeeds, gives every account that existed before the
\* pass its balance and nonce of then, and marks every transaction Reverted.
C16_RevertUndoesWholeBlock ==
    [][(/\ last'.op = "revert_block" /\ trace' # << >>
        /\ WholeBlockExecuted(trace'[1].hash)) =>
          /\ last'.ret = Ok
          /\ \A a \in DOMAIN trace[1].before : accounts'[a] = trace[1].before[a]
          /\ \A i \in DOMAIN blocks'[trace'[1].hash].transactions :
                blocks'[trace'[1].hash].transactions[i].status = Reverted]_vars

AllExecuted(h) ==
    \A i \in DOMAIN blocks[h].transactions : blocks[h].transactions[i].status = Executed

\* C17: revert_block of a block of the ledger returns success when every
\* transaction of the block is Executed at the time of the call (an empty block
\* included), and the not-executed error otherwise.
C17_RevertSucceedsIffAllExecuted ==
    [][\A h \in LedgerHashes :
          (h \in DOMAIN blocks /\ RevertBlock(h)) =>
             /\ AllExecuted(h) => last'.ret = Ok
             /\ ~AllExecuted(h) =>
                   /\ last'.ret.tag = "Err"
                   /\ last'.ret.err = "Transaction was not executed"]_vars

\* C18: when revert_block returns the not-executed error after it has reverted
\* some transactions of the block, these stay reverted: the accounts keep the
\* effect of their reversal and their status in the block is Reverted.
C18_PartialRevertStaysReverted ==
    (last.op = "revert_block" /\ last.ret.tag = "Err" /\ trace # << >>) =>
       /\ accounts = trace[Len(trace)].after
       /\ \A i \in DOMAIN trace :
             trace[i].ret = Ok =>
                blocks[trace[i].hash].transactions[trace[i].index].status = Reverted

\* C19: revert_block with a block id that is not in the DAG returns the
\* block-not-found error and changes nothing: blocks (colors, weights and
\* transaction statuses included), child adjacency and accounts stay as they were.
C19_RevertOfUnknownBlockChangesNothing ==
    [][\A h \in LedgerHashes :
          (h \notin DOMAIN blocks /\ RevertBlock(h)) =>
             /\ last'.ret = Err("Block does not exist", h)
             /\ UNCHANGED <<blocks, children_mapping, accounts, k>>]_vars

C19_Witness ==
    /\ last.op = "revert_block" /\ last.ret.err = "Block does not exist"
    /\ DOMAIN accounts # {}
    /\ \E h \in NonGenesis : \E i \in DOMAIN blocks[h].transactions :
          blocks[h].transactions[i].status = Executed

RevertSteps == {i \in DOMAIN trace : trace[i].op = "revert"}

\* C20: the reversal of an Executed transaction whose receiver holds less than the
\* amount succeeds: the sender is credited the amount, its nonce is decremented,
\* the receiver's balance is left as it is, and the status becomes Reverted.
C20_RevertSkipsDeductionOfPoorReceiver ==
    \A i \in RevertSteps :
       LET st == trace[i]
       IN (st.tx.status = Executed /\ BalanceIn(st.before, st.tx.to) < st.tx.amount) =>
             /\ st.ret = Ok
             /\ st.status = Reverted
             /\ st.after[st.tx.from].balance = st.before[st.tx.from].balance + st.tx.amount
             /\ st.after[st.tx.from].nonce = st.before[st.tx.from].nonce - 1
             /\ BalanceIn(st.after, st.tx.to) = BalanceIn(st.before, st.tx.to)

\* C21: no balance and no nonce is ever below zero, in the stored accounts
\* and after every transaction step of a pass or a revert; a step that
\* lowers a balance found it at least as large as the amount, and a step
\* that finds the nonce at 0 while reverting leaves it at 0.
NonNegative(accs) ==
    \A a \in DOMAIN accs : accs[a].balance >= 0 /\ accs[a].nonce >= 0

C21_NoBalanceOrNonceBelowZero ==
    /\ NonNegative(accounts)
    /\ \A i \in DOMAIN trace :
         LET s == trace[i]
         IN /\ NonNegative(s.before)
            /\ NonNegative(s.after)
            /\ \A a \in DOMAIN s.before :
                 /\ s.after[a].balance < s.before[a].balance
                      => s.before[a].balance >= s.tx.amount
                 /\ (s.op = "revert" /\ s.before[a].nonce = 0)
                      => s.after[a].nonce = 0

\* A revert that met both guards: the receiver was too poor to be debited
\* and the sender's nonce was already 0.
C21_Witness ==
    \E i \in RevertSteps :
        LET s == trace[i]
        IN /\ s.ret = Ok
           /\ s.tx.from # s.tx.to
           /\ s.tx.from \in DOMAIN s.before
           /\ s.tx.to \in DOMAIN s.before
           /\ s.before[s.tx.to].balance < s.tx.amount
           /\ s.before[s.tx.from].nonce = 0
           /\ s.after[s.tx.to].balance = s.before[s.tx.to].balance
           /\ s.after[s.tx.from].nonce = 0

\* get_all_blocks: the stored blocks, one per key of the map, in no order.
get_all_blocks(self) == {self.blocks[h] : h \in DOMAIN self.blocks}

\* C22: after add_block calls that each named only stored parents, the
\* ledger holds as many blocks as add_block calls returned Ok, plus genesis.
C22_BlockCountIsAddsPlusOne ==
    ~panicked => Cardinality(get_all_blocks(Self)) = inserted + 1

\* The parent links of the ledger lead from no block back to itself.
Acyclic(self) == \A h \in DOMAIN self.blocks : h \notin get_ancestors(self, h)

\* C23: after accepted add_block calls the parent-link graph has no cycle.
C23_ParentLinksAreAcyclic ==
    ~panicked => Acyclic(Self)

\* The parent links read backwards: the children each stored block has.
ChildrenOf(self, parent) ==
    {c \in DOMAIN self.blocks : parent \in Range(self.blocks[c].parent_hashes)}

\* C24: the child adjacency map has an entry for every stored block and is
\* the exact inverse of the parent links stored in the blocks.
C24_ChildrenMapInvertsParentLinks ==
    ~panicked =>
        /\ DOMAIN blocks \subseteq DOMAIN children_mapping
        /\ \A p \in DOMAIN children_mapping :
               children_mapping[p] = ChildrenOf(Self, p)

\* What of a block is fixed at insertion: everything but color, weight and
\* the statuses of its transactions.
Fixed(block) ==
    [hash |-> block.hash, parent_hashes |-> block.parent_hashes,
     timestamp |-> block.timestamp,
     transactions |-> [i \in DOMAIN block.transactions |->
                          [id |-> block.transactions[i].id,
                           from |-> block.transactions[i].from,
                           to |-> block.transactions[i].to,
                           amount |-> block.transactions[i].amount,
                           nonce |-> block.transactions[i].nonce]]]

\* C25: no operation changes the hash, parent list, timestamp or the
\* transactions (id, sender, receiver, amount, nonce, number) of a block
\* that is already in the ledger.
C25_InsertedBlockIsFixed ==
    [][\A h \in DOMAIN blocks :
          h \in DOMAIN blocks' /\ Fixed(blocks'[h]) = Fixed(blocks[h])]_vars

\* C26: exactly one stored block has an empty parent list, and it is genesis.
C26_OnlyGenesisHasNoParents ==
    ~panicked =>
        {h \in DOMAIN blocks : blocks[h].parent_hashes = << >>} = {"genesis"}

\* The statuses of the transactions of a block, in order.
Statuses(block) == [i \in DOMAIN block.transactions |-> block.transactions[i].status]

\* C27: an add_block call that stores a block under a hash not yet in the
\* ledger (the ledger grows), and every add_block call that is rejected with
\* an error, leaves all accounts and the statuses of the transactions of
\* every block that was already stored as they were.
C27_AddBlockTouchesNoAccountOrStatus ==
    [][(last'.op = "add_block"
          /\ (DOMAIN blocks' # DOMAIN blocks \/ last'.ret.tag = "Err"))
       => /\ accounts' = accounts
          /\ \A h \in DOMAIN blocks :
                /\ h \in DOMAIN blocks'
                /\ Statuses(blocks'[h]) = Statuses(blocks[h])]_vars

\* A new block was just added to a ledger that already held an executed
\* transaction and an account with a used nonce.
C27_Witness ==
    /\ last.op = "add_block" /\ last.ret = Ok
    /\ Fresh /\ inserted = MaxAdds
    /\ \E h \in DOMAIN blocks : \E i \in DOMAIN blocks[h].transactions :
          blocks[h].transactions[i].status = Executed
    /\ \E a \in DOMAIN accounts : accounts[a].nonce > 0

\* The nodes that can be reached from the nodes of S by zero or more edges.
RECURSIVE Closure(_, _)
Closure(self, S) ==
    LET next == S \cup UNION {self.edges[n] : n \in S \cap DOMAIN self.edges}
    IN IF next = S THEN S ELSE Closure(self, next)

\* A path of one or more edges leads from a to b.
PathExists(self, a, b) ==
    a \in DOMAIN self.edges /\ b \in Closure(self, self.edges[a])

HasCycle(self) == \E n \in DOMAIN self.edges : PathExists(self, n, n)

\* C28: the edges of the Dag never hold a directed cycle, and add_edge(from, to)
\* between two stored nodes returns an error and adds nothing whenever to is
\* from itself or a path leads from to to from.
C28_EdgesStayAcyclic ==
    /\ [](~HasCycle(DagSelf))
    /\ [][(/\ dag_last'.op = "add_edge"
           /\ dag_last'.from \in DOMAIN nodes
           /\ dag_last'.to \in DOMAIN nodes
           /\ \/ dag_last'.from = dag_last'.to
              \/ PathExists(DagSelf, dag_last'.to, dag_last'.from))
          => /\ dag_last'.ret.tag = "Err"
             /\ edges' = edges]_vars

\* An edge was just rejected that would have closed a cycle of three or more
\* nodes: a path leads from to to from, but no single edge does.
C28_Witness ==
    /\ dag_last.op = "add_edge"
    /\ dag_last.ret.tag = "Err"
    /\ dag_last.from \in DOMAIN nodes /\ dag_last.to \in DOMAIN nodes
    /\ dag_last.from # dag_last.to
    /\ dag_last.from \notin edges[dag_last.to]
    /\ PathExists(DagSelf, dag_last.to, dag_last.from)

\* The place of the node of the given id in a sorted result.
PlaceOf(result, id) == CHOOSE i \in DOMAIN result : result[i].id = id

\* C29: whatever the iteration order, topological_sort returns Ok with every
\* stored node exactly once and, for every edge, from before to.
C29_TopologicalSortIsCompleteAndOrdered ==
    \A done \in topological_sort(DagSelf) :
        /\ done.ret = Ok
        /\ Len(done.result) = Cardinality(DOMAIN nodes)
        /\ Range(done.result) = {nodes[id] : id \in DOMAIN nodes}
        /\ \A from \in DOMAIN edges : \A to \in edges[from] :
              PlaceOf(done.result, from) < PlaceOf(done.result, to)

\* topological_sort has just sorted a diamond: four nodes, one with two
\* children that share a child.
C29_Witness ==
    /\ dag_last.op = "topological_sort"
    /\ Len(dag_last.result) = 4
    /\ \E a, b, c, d \in DOMAIN nodes :
          /\ Cardinality({a, b, c, d}) = 4
          /\ edges[a] = {b, c} /\ edges[b] = {d} /\ edges[c] = {d}

\* C30: a call on the Dag that returns an error leaves nodes (ids and data)
\* and edges as they were.
C30_ErrorLeavesDagUnchanged ==
    [][dag_last'.ret.tag = "Err" => (nodes' = nodes /\ edges' = edges)]_vars

\* add_node was just refused for an id whose stored node has other data and
\* has children.
C30_Witness ==
    /\ dag_last.op = "add_node"
    /\ dag_last.ret.tag = "Err"
    /\ nodes[dag_last.node.id].data # dag_last.node.data
    /\ edges[dag_last.node.id] # {}

\* The hashes in the order the last reclassification took them from the heap;
\* ghostdag_sort reads blocks and children_mapping only, not colors or weights.
Popped == ghostdag_sort(Self, overflow_checks).popped

\* The first place of h in seq, one past the end when it is not in seq.
FirstPlace(seq, h) ==
    IF h \notin Range(seq) THEN Len(seq) + 1
    ELSE CHOOSE i \in DOMAIN seq : seq[i] = h /\ \A j \in 1..(i - 1) : seq[j] # h

\* The place in seq at which the last parent of h was classified: from then on
\* h is ready. One past the end when some parent is never classified.
ReadyFrom(seq, h) ==
    LET places == {FirstPlace(seq, p) : p \in Range(blocks[h].parent_hashes)}
    IN IF places = {} THEN 0 ELSE CHOOSE m \in places : \A n \in places : n <= m

\* a goes before b in the priority of the heap, hashes left aside.
Prior(a, b) ==
    \/ Len(blocks[a].parent_hashes) > Len(blocks[b].parent_hashes)
    \/ /\ Len(blocks[a].parent_hashes) = Len(blocks[b].parent_hashes)
       /\ blocks[a].timestamp < blocks[b].timestamp

\* C31: when two non-genesis blocks are ready at the same moment (all parents
\* of both classified, neither classified yet), the one with more parents, or
\* with equally many and the smaller timestamp, is classified first; and of two
\* Blue blocks with the same parent set the one with the smaller timestamp has
\* the smaller weight.
C31_ReadyBlocksGoByPriority ==
    ~panicked =>
        /\ \A a, b \in NonGenesis :
              (/\ a # b
               /\ ReadyFrom(Popped, a) <= Len(Popped)
               /\ ReadyFrom(Popped, b) <= Len(Popped)
               /\ ReadyFrom(Popped, a) < FirstPlace(Popped, b)
               /\ ReadyFrom(Popped, b) < FirstPlace(Popped, a)
               /\ Prior(a, b))
              => FirstPlace(Popped, a) < FirstPlace(Popped, b)
        /\ \A a, b \in Blue \cap NonGenesis :
              (/\ Range(blocks[a].parent_hashes) = Range(blocks[b].parent_hashes)
               /\ blocks[a].timestamp < blocks[b].timestamp)
              => blocks[a].weight < blocks[b].weight

\* The renamings of the hashes of non-genesis blocks.
Renamings ==
    {f \in [Hashes -> Hashes] :
        /\ f["genesis"] = "genesis"
        /\ \A x, y \in Hashes : f[x] = f[y] => x = y}

\* The ledger with every hash x replaced by f[x]: in the keys of both maps, in
\* the blocks, in their parent lists and in the child sets.
Renamed(self, f) ==
    LET back(h) == CHOOSE x \in Hashes : f[x] = h
    IN [self EXCEPT
          !.blocks = [h \in {f[x] : x \in DOMAIN self.blocks} |->
                         LET block == self.blocks[back(h)]
                         IN [block EXCEPT
                               !.hash = f[block.hash],
                               !.parent_hashes = [i \in DOMAIN block.parent_hashes |->
                                                     f[block.parent_hashes[i]]]]],
          !.children_mapping = [h \in {f[x] : x \in DOMAIN self.children_mapping} |->
                                   {f[c] : c \in self.children_mapping[back(h)]}]]

\* C32: a ledger and the same ledger with its non-genesis hashes renamed give
\* corresponding blocks the same color and the same weight.
C32_ClassificationIgnoresHashes ==
    ~panicked =>
        \A f \in Renamings :
            LET other == update_ghostdag_ordering(Renamed(Self, f), overflow_checks)
            IN ~other.panic =>
                  \A h \in DOMAIN blocks :
                      /\ other.self.blocks[f[h]].color = blocks[h].color
                      /\ other.self.blocks[f[h]].weight = blocks[h].weight

\* The blocks reached from the hashes of S by following parent links.
RECURSIVE UpFrom(_)
UpFrom(S) ==
    LET next == S \cup UNION {Range(blocks[x].parent_hashes) : x \in S \cap DOMAIN blocks}
    IN IF next = S THEN S ELSE UpFrom(next)

AncestorsOf(h) == UpFrom(Range(blocks[h].parent_hashes))
DescendantsOf(h) == {d \in DOMAIN blocks : h \in AncestorsOf(d)}

\* The blocks of the set that are neither h nor an ancestor nor a descendant of h.
AnticoneIn(h, set) ==
    {x \in set : x # h /\ x \notin AncestorsOf(h) /\ x \notin DescendantsOf(h)}

\* C33: in the last reclassification a non-genesis candidate was added to the
\* blue set if and only if at most k blocks of the blue set of that moment
\* were in its anticone; when k is at least the number of other blocks, every
\* candidate is Blue.
C33_CandidateIsBlueIffAnticoneWithinK ==
    ~panicked =>
        LET sorted == ghostdag_sort(Self, overflow_checks)
        IN \A i \in DOMAIN sorted.popped :
              LET candidate == sorted.popped[i]
                  blue_set == {sorted.popped[j] : j \in 1..(i - 1)}
                                 \cap Range(sorted.ordered)
              IN candidate # "genesis" =>
                    /\ candidate \in Range(sorted.ordered)
                          <=> Cardinality(AnticoneIn(candidate, blue_set)) <= k
                    /\ k >= Cardinality(DOMAIN blocks) - 1
                          => blocks[candidate].color = "Blue"

\* C34: after add_block every Blue block has at most k Blue blocks of the
\* final classification in its anticone.
C34_BlueAnticoneIsWithinK ==
    ~panicked => \A h \in Blue : Cardinality(AnticoneIn(h, Blue)) <= k

\* The classification of the blocks of this ledger under tolerance kk.
BlueUnder(kk) ==
    LET other == update_ghostdag_ordering([Self EXCEPT !.k = kk], overflow_checks)
    IN {h \in DOMAIN blocks : other.self.blocks[h].color = "Blue"}

\* C35: a block that is Blue under the tolerance k of the ledger is Blue under
\* every larger tolerance, for the same blocks.
C35_LargerKKeepsBlue ==
    ~panicked => \A kk \in (k + 1)..(MaxK + 1) : Blue \subseteq BlueUnder(kk)

\* C36: the last reclassification took every non-genesis block of the ledger
\* from the heap exactly once.
C36_EveryBlockIsCandidateOnce ==
    ~panicked =>
        \A h \in NonGenesis :
            Cardinality({i \in DOMAIN Popped : Popped[i] = h}) = 1

\* The sum of the balances of the accounts of accs (an absent account counts 0).
RECURSIVE SumOver(_, _)
SumOver(accs, addresses) ==
    IF addresses = {} THEN 0
    ELSE LET a == CHOOSE x \in addresses : TRUE
         IN accs[a].balance + SumOver(accs, addresses \ {a})

TotalBalance(accs) == SumOver(accs, DOMAIN accs)

\* C37: an execute_blue_chain call that returns leaves the sum of all balances
\* as it was before the call.
C37_ExecutionConservesMoney ==
    [][(last'.op = "execute_blue_chain" /\ ~panicked')
          => TotalBalance(accounts') = TotalBalance(accounts)]_vars

\* C38: a revert_block call credits no sender for a stored transaction that a
\* revert has already credited since the transaction was last executed, and
\* credits a sender only for a transaction that a pass left Executed.
C38_TransactionIsUndoneAtMostOnce ==
    [][last'.op = "revert_block" =>
          \A i \in DOMAIN trace' :
              trace'[i].ret = Ok =>
                 /\ <<trace'[i].hash, trace'[i].index>> \notin refunded
                 /\ trace'[i].tx.status = Executed]_vars

\* C39: no accepted add_block has panicked, and the reclassification of the
\* ledger decrements no remaining-parent counter that is already 0.
C39_CounterNeverGoesBelowZero ==
    /\ ~panicked
    /\ ~ghostdag_sort(Self, overflow_checks).underflow

\* C40: an add_block call that stores a block under a new hash turns no
\* stored Blue block Red, and no Red block holds an Executed transaction.
C40_GrowthKeepsBlueBlocksBlue ==
    /\ [][(last'.op = "add_block" /\ DOMAIN blocks' # DOMAIN blocks /\ ~panicked')
             => \A h \in DOMAIN blocks :
                   blocks[h].color = "Blue" => blocks'[h].color = "Blue"]_vars
    /\ [](~panicked =>
             \A h \in Red : \A i \in DOMAIN blocks[h].transactions :
                 blocks[h].transactions[i].status # Executed)

====
